---- MODULE Spec2Model ----
(***************************************************************************)
(* Model of src/src/I18nProvider.tsx: the translation function t built by  *)
(* I18nProvider, with getDicValue, plural, interpolation,                  *)
(* objectInterpolation and missingKeyLogger.                               *)
(*                                                                         *)
(* A JavaScript string is a sequence of symbols.  The symbols              *)
(*   ":"  "."  "_"  "{"  "}"  " "  "$"  "&"  "-"  "0" .. "9"               *)
(* are the single characters the code inspects; every other symbol (such   *)
(* as "apples") stands for a run of letters that the code never looks      *)
(* into; "BQ" and "SQ" stand for the back quote and the single quote.  The *)
(* empty string is the empty sequence.                                     *)
(***************************************************************************)
EXTENDS Integers, Sequences, FiniteSets, TLC

VARIABLES
  allNamespaces,  \* line 142: namespace -> dictionary object (externally owned)
  env,            \* typeof window (line 168), process.env.NODE_ENV (line 118)
  config,         \* line 144: logger and interpolation delimiters
  lang,           \* line 140: language of pluralRules (line 143)
  pc,             \* "idle", "t" (an invocation of t is about to run), "done"
  call,           \* arguments of the caller's t(key, query, options)
  key,            \* key argument of the invocation of t about to run
  options,        \* options argument of that invocation
  result,         \* value returned to the caller
  log,            \* what the invocations did, in order: resolved keys, reports
  console,        \* console.warn output of missingKeyLogger
  depth,          \* invocations of t run for the current call
  lastWrite,      \* the last completed call that wrote into a dictionary
  text            \* text argument of a direct interpolation({text, query, config})

vars == <<allNamespaces, env, config, lang, pc, call, key, options, result,
          log, console, depth, lastWrite, text>>

(***************************************************************************)
(* Values.  A dictionary value, and what getDicValue and t return, is a    *)
(* string, an object (a function from property names to values) or         *)
(* undefined.  The three fields are always present so that any two values  *)
(* can be compared.                                                        *)
(***************************************************************************)
EmptyObj == <<>>
Undefined == [ty |-> "undefined", s |-> <<>>, o |-> EmptyObj]
StrV(s) == [ty |-> "string", s |-> s, o |-> EmptyObj]
ObjV(o) == [ty |-> "object", s |-> <<>>, o |-> o]
IsStr(v) == v.ty = "string"
IsObj(v) == v.ty = "object"
IsUndef(v) == v.ty = "undefined"

\* A query value: typeof 'string' or typeof 'number'.
QStr(s) == [ty |-> "string", s |-> s, n |-> 0]
QNum(n) == [ty |-> "number", s |-> <<>>, n |-> n]
\* A query: null/undefined, or an object whose keys are kept in insertion
\* order (Object.keys, line 82).
NoQuery == [present |-> FALSE, kv |-> <<>>]
Query(kv) == [present |-> TRUE, kv |-> kv]
QueryKeys(q) == {q.kv[i].k : i \in 1..Len(q.kv)}
QueryGet(q, k) == q.kv[CHOOSE i \in 1..Len(q.kv) : q.kv[i].k = k].v

(***************************************************************************)
(* String conversion of a number in a template literal (lines 51, 87).    *)
(***************************************************************************)
Digits == <<"0", "1", "2", "3", "4", "5", "6", "7", "8", "9">>
RECURSIVE NatStr(_)
NatStr(n) == IF n < 10 THEN <<Digits[n + 1]>>
             ELSE NatStr(n \div 10) \o <<Digits[(n % 10) + 1]>>
NumStr(n) == IF n < 0 THEN <<"-">> \o NatStr(0 - n) ELSE NatStr(n)
QValStr(v) == IF v.ty = "number" THEN NumStr(v.n) ELSE v.s

(***************************************************************************)
(* The regular expression of line 83:                                      *)
(*   escapeRegex(prefix) \s* varKey \s* escapeRegex(suffix)                *)
(* escapeRegex makes the delimiters match literally.  varKey is a plain    *)
(* word here (no regex metacharacter), and neither varKey nor the suffix   *)
(* starts with white space, so the greedy \s* never backtracks.            *)
(***************************************************************************)
IsSpace(c) == c = " "
StartsWith(s, i, p) ==
  /\ i + Len(p) - 1 <= Len(s)
  /\ \A j \in 1..Len(p) : s[i + j - 1] = p[j]
RECURSIVE SkipSpaces(_, _)
SkipSpaces(s, i) ==
  IF i <= Len(s) /\ IsSpace(s[i]) THEN SkipSpaces(s, i + 1) ELSE i
\* The index just past a match that starts at i, or 0 when none starts there.
MatchAt(s, i, cfg, varKey) ==
  IF ~StartsWith(s, i, cfg.prefix) THEN 0
  ELSE LET a == SkipSpaces(s, i + Len(cfg.prefix))
       IN IF ~StartsWith(s, a, varKey) THEN 0
          ELSE LET b == SkipSpaces(s, a + Len(varKey))
               IN IF ~StartsWith(s, b, cfg.suffix) THEN 0
                  ELSE b + Len(cfg.suffix)
HasPattern(s, cfg, varKey) == \E i \in 1..Len(s) : MatchAt(s, i, cfg, varKey) > 0

(***************************************************************************)
(* String.prototype.replace(regex, replacement) of line 87.  The second    *)
(* argument is a replacement STRING, in which $$ stands for "$", $& for    *)
(* the matched text, $ and a back quote for the text before the match, $   *)
(* and a single quote for the text after it; the regex has no capture      *)
(* group, so any other "$" is literal.                                     *)
(***************************************************************************)
RECURSIVE Expand(_, _, _, _, _)
Expand(repl, j, s, i, e) ==
  IF j > Len(repl) THEN <<>>
  ELSE IF repl[j] = "$" /\ j < Len(repl) /\ repl[j + 1] \in {"$", "&", "BQ", "SQ"}
       THEN (CASE repl[j + 1] = "$" -> <<"$">>
               [] repl[j + 1] = "&" -> SubSeq(s, i, e - 1)
               [] repl[j + 1] = "BQ" -> SubSeq(s, 1, i - 1)
               [] OTHER -> SubSeq(s, e, Len(s)))
            \o Expand(repl, j + 2, s, i, e)
       ELSE <<repl[j]>> \o Expand(repl, j + 1, s, i, e)
\* The g flag: every match, leftmost first, none overlapping.
RECURSIVE ReplaceFrom(_, _, _, _, _)
ReplaceFrom(s, i, cfg, varKey, repl) ==
  IF i > Len(s) THEN <<>>
  ELSE LET e == MatchAt(s, i, cfg, varKey)
       IN IF e > 0
          THEN Expand(repl, 1, s, i, e) \o ReplaceFrom(s, e, cfg, varKey, repl)
          ELSE <<s[i]>> \o ReplaceFrom(s, i + 1, cfg, varKey, repl)
\* Faulty variant: the regex without its g flag replaces the first match only.
RECURSIVE ReplaceFirstFrom(_, _, _, _, _)
ReplaceFirstFrom(s, i, cfg, varKey, repl) ==
  IF i > Len(s) THEN <<>>
  ELSE LET e == MatchAt(s, i, cfg, varKey)
       IN IF e > 0 THEN Expand(repl, 1, s, i, e) \o SubSeq(s, e, Len(s))
          ELSE <<s[i]>> \o ReplaceFirstFrom(s, i + 1, cfg, varKey, repl)
ReplaceFirst(s, cfg, varKey, repl) == ReplaceFirstFrom(s, 1, cfg, varKey, repl)
ReplaceAll(s, cfg, varKey, repl) == ReplaceFrom(s, 1, cfg, varKey, repl)

(***************************************************************************)
(* interpolation, lines 65-90.  txt is a value: a string or undefined.     *)
(***************************************************************************)
DefaultDelimiters == [prefix |-> <<"{", "{">>, suffix |-> <<"}", "}">>]
RECURSIVE InterpolateKeys(_, _, _, _)
InterpolateKeys(all, q, i, cfg) ==
  IF i > Len(q.kv) THEN all
  ELSE InterpolateKeys(ReplaceAll(all, cfg, q.kv[i].k, QValStr(q.kv[i].v)),
                       q, i + 1, cfg)
interpolation(txt, q, cfg) ==
  IF IsUndef(txt) \/ txt.s = <<>> \/ ~q.present
  THEN (IF IsUndef(txt) THEN <<>> ELSE txt.s)
  ELSE InterpolateKeys(txt.s, q, 1, cfg.interpolation)

(***************************************************************************)
(* objectInterpolation, lines 92-115: every string property of obj, at any *)
(* depth, is overwritten with its interpolation.  The result is the state  *)
(* of the object obj (the same object, mutated) after the call.            *)
(***************************************************************************)
\* Faulty variant: the nested objects are not visited.
objectInterpolation_Shallow(obj, q, cfg) ==
  IF ~q.present \/ Len(q.kv) = 0 THEN obj
  ELSE [p \in DOMAIN obj |->
          IF IsStr(obj[p]) THEN StrV(interpolation(obj[p], q, cfg)) ELSE obj[p]]
RECURSIVE objectInterpolation(_, _, _)
objectInterpolation(obj, q, cfg) ==
  IF ~q.present \/ Len(q.kv) = 0 THEN obj
  ELSE [p \in DOMAIN obj |->
          IF IsObj(obj[p]) THEN ObjV(objectInterpolation(obj[p].o, q, cfg))
          ELSE IF IsStr(obj[p]) THEN StrV(interpolation(obj[p], q, cfg))
          ELSE obj[p]]

(***************************************************************************)
(* getDicValue, lines 18-38.  key.split('.') and the reduce over it.       *)
(***************************************************************************)
RECURSIVE SplitOn(_, _)
SplitOn(s, sep) ==
  IF \A i \in 1..Len(s) : s[i] # sep THEN <<s>>
  ELSE LET p == CHOOSE i \in 1..Len(s) :
                  s[i] = sep /\ \A j \in 1..(i - 1) : s[j] # sep
       IN <<SubSeq(s, 1, p - 1)>> \o SplitOn(SubSeq(s, p + 1, Len(s)), sep)
\* val[key] || {}  (line 28).  A string has none of the properties the
\* model's keys name, so val[key] is undefined on a string.
Property(val, seg) ==
  LET v == IF IsObj(val) /\ seg \in DOMAIN val.o THEN val.o[seg] ELSE Undefined
  IN IF IsUndef(v) \/ (IsStr(v) /\ v.s = <<>>) THEN ObjV(EmptyObj) ELSE v
RECURSIVE Reduce(_, _, _)
Reduce(val, segs, i) ==
  IF i > Len(segs) THEN val ELSE Reduce(Property(val, segs[i]), segs, i + 1)
\* options defaults to {returnObjects: false} when it is undefined.
NoOptions == [present |-> FALSE, returnObjects |-> FALSE,
              fallback |-> [ty |-> "undefined", s |-> <<>>, a |-> <<>>]]
\* Faulty variant: an object is returned whether or not returnObjects is set.
getDicValue_AnyObject(dic, k, opts) ==
  LET path == IF IsUndef(k) THEN <<>> ELSE k.s
      value == Reduce(ObjV(dic), SplitOn(path, "."), 1)
  IN IF IsStr(value) \/ IsObj(value) THEN value ELSE Undefined
getDicValue(dic, k, opts) ==
  LET path == IF IsUndef(k) THEN <<>> ELSE k.s
      value == Reduce(ObjV(dic), SplitOn(path, "."), 1)
  IN IF IsStr(value) \/ (IsObj(value) /\ opts.returnObjects) THEN value
     ELSE Undefined

(***************************************************************************)
(* Intl.PluralRules(lang).select(n) for integers n >= 0 (CLDR cardinals).  *)
(***************************************************************************)
select(lng, n) ==
  CASE lng = "en" -> (IF n = 1 THEN <<"one">> ELSE <<"other">>)
    [] lng = "ar" -> (CASE n = 0 -> <<"zero">>
                        [] n = 1 -> <<"one">>
                        [] n = 2 -> <<"two">>
                        [] n % 100 \in 3..10 -> <<"few">>
                        [] n % 100 \in 11..99 -> <<"many">>
                        [] OTHER -> <<"other">>)
    [] OTHER -> <<"other">>

(***************************************************************************)
(* plural, lines 43-60.  k is the leaf key: a string or undefined; in a    *)
(* template literal undefined reads "undefined".                           *)
(***************************************************************************)
TemplateStr(k) == IF IsUndef(k) THEN <<"undefined">> ELSE k.s
HasCount(q) ==
  /\ q.present
  /\ <<"count">> \in QueryKeys(q)
  /\ QueryGet(q, <<"count">>).ty = "number"
\* Faulty variant: the category key is tried before the exact key.
plural_CategoryFirst(lng, dic, k, q) ==
  IF ~HasCount(q) THEN k
  ELSE LET count == QueryGet(q, <<"count">>).n
           numKey == StrV(TemplateStr(k) \o <<"_">> \o NumStr(count))
           pluralKey == StrV(TemplateStr(k) \o <<"_">> \o select(lng, count))
       IN IF count > 1 /\ ~IsUndef(getDicValue(dic, pluralKey, NoOptions))
          THEN pluralKey
          ELSE IF ~IsUndef(getDicValue(dic, numKey, NoOptions)) THEN numKey
               ELSE k
\* Faulty variant: the category key is never tried.
plural_ExactOnly(lng, dic, k, q) ==
  IF ~HasCount(q) THEN k
  ELSE LET count == QueryGet(q, <<"count">>).n
           numKey == StrV(TemplateStr(k) \o <<"_">> \o NumStr(count))
       IN IF ~IsUndef(getDicValue(dic, numKey, NoOptions)) THEN numKey ELSE k
\* Faulty variant: the fixed suffix _plural stands for the category.
plural_PluralSuffix(lng, dic, k, q) ==
  IF ~HasCount(q) THEN k
  ELSE LET count == QueryGet(q, <<"count">>).n
           numKey == StrV(TemplateStr(k) \o <<"_">> \o NumStr(count))
           pluralKey == StrV(TemplateStr(k) \o <<"_", "plural">>)
       IN IF ~IsUndef(getDicValue(dic, numKey, NoOptions)) THEN numKey
          ELSE IF count > 1 /\ ~IsUndef(getDicValue(dic, pluralKey, NoOptions))
               THEN pluralKey
               ELSE k
plural(lng, dic, k, q) ==
  IF ~HasCount(q) THEN k
  ELSE LET count == QueryGet(q, <<"count">>).n
           numKey == StrV(TemplateStr(k) \o <<"_">> \o NumStr(count))
           pluralKey == StrV(TemplateStr(k) \o <<"_">> \o select(lng, count))
       IN IF ~IsUndef(getDicValue(dic, numKey, NoOptions)) THEN numKey
          ELSE IF count > 1 /\ ~IsUndef(getDicValue(dic, pluralKey, NoOptions))
               THEN pluralKey
               ELSE k

(***************************************************************************)
(* missingKeyLogger, lines 117-130: what it passes to console.warn.        *)
(***************************************************************************)
missingKeyLogger(namespace, i18nKey, production) ==
  IF production THEN <<>>
  ELSE IF IsUndef(i18nKey) \/ i18nKey.s = <<>>
       THEN <<[warn |-> "no namespace", namespace |-> namespace,
               i18nKey |-> i18nKey]>>
       ELSE <<[warn |-> "missing", namespace |-> namespace,
               i18nKey |-> i18nKey]>>

(***************************************************************************)
(* t, lines 147-189.                                                       *)
(***************************************************************************)
\* k.split(/:(.+)/) of line 153: the first ":" splits, when a character
\* follows it.
SplitKey(k) ==
  LET colons == {i \in 1..Len(k) : k[i] = ":"}
      p == IF colons = {} THEN 0
           ELSE CHOOSE i \in colons : \A j \in colons : i <= j
  IN IF p = 0 \/ p = Len(k)
     THEN [namespace |-> k, i18nKey |-> Undefined]
     ELSE [namespace |-> SubSeq(k, 1, p - 1),
           i18nKey |-> StrV(SubSeq(k, p + 1, Len(k)))]
\* Lines 162-165.  The elements of a fallback array are values.
Fallbacks(opts) ==
  CASE opts.fallback.ty = "string" -> <<StrV(opts.fallback.s)>>
    [] opts.fallback.ty = "array" -> opts.fallback.a
    [] OTHER -> <<>>
FallbackArray(a) == [ty |-> "array", s |-> <<>>, a |-> a]
FallbackString(s) == [ty |-> "string", s |-> s, a |-> <<>>]
\* The object at path segs of dic replaced by new: the effect, on the
\* dictionary, of mutating the object that getDicValue returned.
RECURSIVE SetPath(_, _, _, _)
SetPath(obj, segs, i, new) ==
  IF i > Len(segs) THEN new
  ELSE [obj EXCEPT ![segs[i]] = ObjV(SetPath(obj[segs[i]].o, segs, i + 1, new))]
\* Lines 158-160.
IsEmpty(value) == IsUndef(value) \/ (IsObj(value) /\ DOMAIN value.o = {})
\* Line 174: [firstFallback, ...restFallbacks] = fallbacks.
\* Faulty variant: the whole chain is passed on.
restFallbacks_Whole(fallbacks) == fallbacks
restFallbacks(fallbacks) == Tail(fallbacks)
\* Line 168: log only during CSR.
\* Faulty variant: every key is reported.
Reports_Always(e, empty) == e.window
Reports(e, empty) == e.window /\ empty
\* One invocation of t: lines 152-188, up to its return or its recursive call.
tInvocation(reg, lng, cfg, k, q, opts) ==
  LET sp == SplitKey(k)
      known == sp.namespace \in DOMAIN reg
      dic == IF known THEN reg[sp.namespace] ELSE EmptyObj
      keyWithPlural == plural(lng, dic, sp.i18nKey, q)
      value == getDicValue(dic, keyWithPlural, opts)
      empty == IsEmpty(value)
      fallbacks == Fallbacks(opts)
      recurse == empty /\ Len(fallbacks) > 0 /\ IsStr(fallbacks[1])
      obj == objectInterpolation(value.o, q, cfg)
      str == interpolation(value, q, cfg)
  IN [namespace |-> sp.namespace,
      i18nKey |-> sp.i18nKey,
      keyWithPlural |-> keyWithPlural,
      value |-> value,
      empty |-> empty,
      recurse |-> recurse,
      nextKey |-> IF recurse THEN fallbacks[1].s ELSE <<>>,
      nextOptions |-> IF recurse
                      THEN [present |-> TRUE,
                            returnObjects |-> opts.returnObjects,
                            fallback |-> FallbackArray(restFallbacks(fallbacks))]
                      ELSE opts,
      ret |-> IF IsObj(value) THEN ObjV(obj)
              ELSE StrV(IF str = <<>> THEN k ELSE str),
      reg |-> IF IsObj(value) /\ DOMAIN value.o # {}
              THEN [reg EXCEPT ![sp.namespace] =
                      SetPath(dic, SplitOn(keyWithPlural.s, "."), 1, obj)]
              ELSE reg]
\* The whole function: line 176 returns what the recursive call returns.
RECURSIVE t(_, _, _, _, _, _)
t(reg, lng, cfg, k, q, opts) ==
  LET b == tInvocation(reg, lng, cfg, k, q, opts)
  IN IF b.recurse THEN t(reg, lng, cfg, b.nextKey, q, b.nextOptions)
     ELSE [ret |-> b.ret, reg |-> b.reg]

(***************************************************************************)
(* Inputs.  Bounds of the model.                                           *)
(***************************************************************************)
MaxEntries == 3    \* entries of a dictionary
MaxChain == 2      \* length of a fallback array
MaxCount == 5      \* largest count
MaxSegments == 3   \* pieces of a text handed to interpolation

Placeholder(name) == <<"{", "{">> \o name \o <<"}", "}">>
Key(ns, leaf) == ns \o <<":">> \o leaf
Obj1(k1, v1) == k1 :> v1
Obj2(k1, v1, k2, v2) == (k1 :> v1) @@ (k2 :> v2)

\* Dictionaries: at most MaxEntries entries of a pool, no key twice.
DicOf(S) == [k \in {e.k : e \in S} |-> (CHOOSE e \in S : e.k = k).v]
Dics(Pool) ==
  {DicOf(S) : S \in {S \in SUBSET Pool :
                       /\ Cardinality(S) <= MaxEntries
                       /\ \A e, f \in S : e.k = f.k => e = f}}
Entry(k, v) == [k |-> k, v |-> v]
\* Sequences over S of length at most n.
RECURSIVE SeqsUpTo(_, _)
SeqsUpTo(S, n) ==
  IF n = 0 THEN {<<>>}
  ELSE LET R == SeqsUpTo(S, n - 1)
       IN R \cup {Append(r, x) : r \in {r \in R : Len(r) = n - 1}, x \in S}
OptionsOver(FallbackKeys) ==
  {NoOptions} \cup
  [present : {TRUE}, returnObjects : BOOLEAN,
   fallback : {NoOptions.fallback}
              \cup {FallbackString(k) : k \in FallbackKeys}
              \cup {FallbackArray(a) :
                      a \in SeqsUpTo({StrV(k) : k \in FallbackKeys}, MaxChain)}]

Hello == <<"Hello", " ">> \o Placeholder(<<"name">>)
ObjectLeaf ==
  Obj2(<<"title">>, StrV(<<"Hi", " ">> \o Placeholder(<<"name">>)),
       <<"sub">>, ObjV(Obj1(<<"x">>, StrV(Placeholder(<<"name">>) \o <<" ">>
                                           \o Placeholder(<<"other">>)))))
ResolvePool ==
  {Entry(<<"a">>, StrV(Hello)), Entry(<<"a">>, StrV(<<>>)),
   Entry(<<"a">>, ObjV(ObjectLeaf)), Entry(<<"a">>, ObjV(EmptyObj)),
   Entry(<<"b">>, StrV(<<"B">>))}
ResolveRegistries == {Obj1(<<"common">>, d) : d \in Dics(ResolvePool)}
ResolveKeys ==
  {Key(<<"common">>, <<"a">>), Key(<<"common">>, <<"b">>),
   Key(<<"common">>, <<"c">>), Key(<<"zz">>, <<"a">>), <<"a">>,
   Key(<<"common">>, <<"a", ".", "sub">>)}
ResolveFallbackKeys == {Key(<<"common">>, <<"a">>), Key(<<"common">>, <<"b">>)}
ResolveQueries ==
  {NoQuery, Query(<<[k |-> <<"name">>, v |-> QStr(<<"Ana">>)]>>)}
ResolveOptions == OptionsOver(ResolveFallbackKeys)

\* Calls that return objects: the dictionary holds an object-valued leaf.
ObjectRegistries ==
  {Obj1(<<"common">>, Obj1(<<"a">>, ObjV(ObjectLeaf))),
   Obj1(<<"common">>, Obj2(<<"a">>, ObjV(ObjectLeaf), <<"b">>, StrV(Hello)))}
ObjectKeys ==
  {Key(<<"common">>, <<"a">>), Key(<<"common">>, <<"b">>),
   Key(<<"common">>, <<"a", ".", "sub">>)}
ObjectQueries ==
  {NoQuery, Query(<<>>),
   Query(<<[k |-> <<"name">>, v |-> QStr(<<"Ana">>)]>>),
   Query(<<[k |-> <<"name">>, v |-> QStr(<<"Bob">>)]>>),
   Query(<<[k |-> <<"other">>, v |-> QNum(7)]>>)}
ObjectOptions ==
  {NoOptions} \cup
  [present : {TRUE}, returnObjects : BOOLEAN,
   fallback : {NoOptions.fallback,
               FallbackArray(<<StrV(Key(<<"common">>, <<"a">>))>>)}]

\* Calls whose reports are observed, in every environment.
LogPool ==
  {Entry(<<"a">>, StrV(Hello)), Entry(<<"a">>, ObjV(ObjectLeaf)),
   Entry(<<"b">>, StrV(<<"B">>))}
LogRegistries == {Obj1(<<"common">>, d) : d \in Dics(LogPool)}
LogKeys ==
  {Key(<<"common">>, <<"a">>), Key(<<"common">>, <<"b">>),
   Key(<<"common">>, <<"c">>), Key(<<"zz">>, <<"a">>), <<"a">>}
LogOptions ==
  OptionsOver({Key(<<"common">>, <<"a">>), Key(<<"common">>, <<"b">>),
               Key(<<"zz">>, <<"c">>)})
Environments == [window : BOOLEAN, production : BOOLEAN]
LoggerConfigs == [logger : {"default", "custom"}, interpolation : {DefaultDelimiters}]

\* Calls with a count: the dictionary holds plural forms of "apples".
Apples(suffix) == <<"apples", "_">> \o suffix
CountText == Placeholder(<<"count">>) \o <<" ", "apples">>
OneApple == <<"one", " ", "apple">>
Categories == {<<"zero">>, <<"one">>, <<"two">>, <<"few">>, <<"other">>}
PluralPool ==
  {Entry(<<"apples">>, StrV(<<"some", " ", "apples">>)),
   Entry(Apples(<<"1">>), StrV(OneApple)),
   Entry(Apples(<<"1">>), StrV(<<>>)),
   Entry(Apples(<<"2">>), ObjV(Obj1(<<"x">>, StrV(CountText)))),
   Entry(Apples(<<"other">>), StrV(<<>>)),
   Entry(Apples(<<"plural">>), StrV(CountText)),
   Entry(<<"greeting">>, StrV(Hello))}
  \cup {Entry(Apples(NumStr(c)), StrV(<<"exactly", " ">> \o NumStr(c)
                                              \o <<" ", "apples">>)) :
          c \in (0..MaxCount) \ {1}}
  \cup {Entry(Apples(cat), StrV(CountText)) : cat \in Categories}
PluralRegistries == {Obj1(<<"common">>, d) : d \in Dics(PluralPool)}
Count(c) == Query(<<[k |-> <<"count">>, v |-> QNum(c)]>>)
PluralQueries ==
  {NoQuery, Query(<<[k |-> <<"count">>, v |-> QStr(<<"5">>)]>>)}
  \cup {Count(c) : c \in 0..MaxCount}
PluralOptions ==
  {NoOptions,
   [present |-> TRUE, returnObjects |-> TRUE, fallback |-> NoOptions.fallback]}
ApplesKey == Key(<<"common">>, <<"apples">>)

\* Direct calls of interpolation: a text is made of at most MaxSegments
\* pieces; a query has the keys x and y, in either order, or one, or none.
RECURSIVE Concat(_)
Concat(ss) == IF ss = <<>> THEN <<>> ELSE Head(ss) \o Concat(Tail(ss))
Segments ==
  {<<"w">>, Placeholder(<<"x">>), <<"{", "{", " ", "x", " ", "}", "}">>,
   Placeholder(<<"y">>), <<"{", "{">>, <<"x", "}", "}">>}
Texts == {Undefined} \cup {StrV(Concat(ss)) : ss \in SeqsUpTo(Segments, MaxSegments)}
QueryValues ==
  {QStr(<<"v">>), QStr(<<>>), QNum(5), QStr(Placeholder(<<"x">>)),
   QStr(Placeholder(<<"y">>)), QStr(<<"$", "&">>), QStr(<<"$", "$">>)}
QueryNames == {<<"x">>, <<"y">>}
InterpolationQueries ==
  {NoQuery, Query(<<>>)}
  \cup {Query(<<[k |-> n, v |-> v]>>) : n \in QueryNames, v \in QueryValues}
  \cup {q \in {Query(<<[k |-> n, v |-> v], [k |-> m, v |-> u]>>) :
                  n \in QueryNames, m \in QueryNames,
                  v \in QueryValues, u \in QueryValues} :
          q.kv[1].k # q.kv[2].k}

DefaultConfig == [logger |-> "default", interpolation |-> DefaultDelimiters]
Browser == [window |-> TRUE, production |-> FALSE]

(***************************************************************************)
(* The state machine.                                                      *)
(***************************************************************************)
NoCall == [key |-> <<>>, query |-> NoQuery, options |-> NoOptions,
           registry |-> EmptyObj]
NoWrite == [wrote |-> FALSE, key |-> <<>>, query |-> NoQuery,
            result |-> Undefined]
Idle ==
  /\ pc = "idle"
  /\ call = NoCall
  /\ key = <<>>
  /\ options = NoOptions
  /\ result = Undefined
  /\ log = <<>>
  /\ console = <<>>
  /\ depth = 0
  /\ text = Undefined
\* The provider is built (lines 132-145) and t has not been called.
InitWith(Registries, Envs, Configs, Langs) ==
  /\ allNamespaces \in Registries
  /\ env \in Envs
  /\ config \in Configs
  /\ lang \in Langs
  /\ lastWrite = NoWrite
  /\ Idle

\* The caller calls t(k, q, o).
CallT(Keys, Queries, Opts) ==
  /\ pc = "idle"
  /\ \E k \in Keys, q \in Queries, o \in Opts :
       /\ call' = [key |-> k, query |-> q, options |-> o,
                   registry |-> allNamespaces]
       /\ key' = k
       /\ options' = o
  /\ pc' = "t"
  /\ UNCHANGED <<allNamespaces, env, config, lang, result, log, console,
                 depth, lastWrite, text>>

\* One invocation of t runs: it resolves its key, reports it when empty,
\* and either calls t on the first fallback key or returns.
RunT ==
  /\ pc = "t"
  /\ LET b == tInvocation(allNamespaces, lang, config, key, call.query, options)
         ev(kind) == [ev |-> kind, key |-> key, namespace |-> b.namespace,
                      i18nKey |-> b.i18nKey, empty |-> b.empty,
                      chain |-> Len(Fallbacks(options)),
                      logger |-> config.logger]
         report == Reports(env, b.empty)
     IN /\ depth' = depth + 1
        /\ log' = log \o <<ev("resolve")>>
                      \o (IF report THEN <<ev("report")>> ELSE <<>>)
        /\ console' = console \o
                        (IF report /\ config.logger = "default"
                         THEN missingKeyLogger(b.namespace, b.i18nKey,
                                               env.production)
                         ELSE <<>>)
        /\ IF b.recurse
           THEN /\ key' = b.nextKey
                /\ options' = b.nextOptions
                /\ pc' = "t"
                /\ UNCHANGED <<allNamespaces, result>>
           ELSE /\ result' = b.ret
                /\ allNamespaces' = b.reg
                /\ pc' = "done"
                /\ UNCHANGED <<key, options>>
  /\ UNCHANGED <<env, config, lang, call, lastWrite, text>>

\* The caller has the result; the provider waits for the next call.  A call
\* that ran objectInterpolation with a query on an object of the dictionary
\* is remembered as the last write (objectInterpolation, lines 101-112).
Wrote ==
  /\ IsObj(result)
  /\ DOMAIN result.o # {}
  /\ call.query.present
  /\ Len(call.query.kv) > 0
ReturnT ==
  /\ pc = "done"
  /\ lastWrite' = IF Wrote
                  THEN [wrote |-> TRUE, key |-> key, query |-> call.query,
                        result |-> result]
                  ELSE lastWrite
  /\ pc' = "idle"
  /\ call' = NoCall
  /\ key' = <<>>
  /\ options' = NoOptions
  /\ result' = Undefined
  /\ log' = <<>>
  /\ console' = <<>>
  /\ depth' = 0
  /\ text' = Undefined
  /\ UNCHANGED <<allNamespaces, env, config, lang>>

\* interpolation({text, query, config}) is called on its own.
Interpolate ==
  /\ pc = "idle"
  /\ \E txt \in Texts, q \in InterpolationQueries :
       /\ text' = txt
       /\ call' = [NoCall EXCEPT !.query = q]
       /\ result' = StrV(interpolation(txt, q, config))
  /\ pc' = "done"
  /\ UNCHANGED <<allNamespaces, env, config, lang, key, options, log,
                 console, depth, lastWrite>>

Init == InitWith(ResolveRegistries, {Browser}, {DefaultConfig}, {"en"})
Next ==
  \/ CallT(ResolveKeys, ResolveQueries, ResolveOptions)
  \/ RunT
  \/ ReturnT
Spec == Init /\ [][Next]_vars

InitLog == InitWith(LogRegistries, Environments, LoggerConfigs, {"en"})
NextLog ==
  \/ CallT(LogKeys, {NoQuery}, LogOptions)
  \/ RunT
  \/ ReturnT
SpecLog == InitLog /\ [][NextLog]_vars

InitPlural ==
  InitWith(PluralRegistries, {Browser}, {DefaultConfig}, {"en", "ar"})
NextPlural ==
  \/ CallT({ApplesKey}, PluralQueries, PluralOptions)
  \/ RunT
  \/ ReturnT
SpecPlural == InitPlural /\ [][NextPlural]_vars

InitInterpolation == InitWith({EmptyObj}, {Browser}, {DefaultConfig}, {"en"})
NextInterpolation == Interpolate \/ ReturnT
SpecInterpolation == InitInterpolation /\ [][NextInterpolation]_vars

InitObject == InitWith(ObjectRegistries, {Browser}, {DefaultConfig}, {"en"})
NextObject ==
  \/ CallT(ObjectKeys, ObjectQueries, ObjectOptions)
  \/ RunT
  \/ ReturnT
SpecObject == InitObject /\ [][NextObject]_vars

(***************************************************************************)
(* Properties.                                                             *)
(***************************************************************************)
Done == pc = "done"
\* The chain the caller passed, and whether the caller's key classified empty.
CallChain == Fallbacks(call.options)
PrimaryEmpty == Len(log) > 0 /\ log[1].empty
\* What t returns for key k on the dictionaries as they were at the call.
Resolves(k, opts) ==
  ~tInvocation(call.registry, lang, config, k, call.query, opts).empty
PlainT(k) == t(call.registry, lang, config, k, call.query, NoOptions).ret

\* C1: with a fallback chain [k1, k2] and a primary key that classifies
\* empty, t returns t(k1, query) if k1 resolves non-empty, else t(k2, query)
\* if k2 resolves non-empty, else the literal key the caller passed.
C1_FallbackResult ==
  (/\ Done
   /\ call.options.fallback.ty = "array"
   /\ Len(CallChain) = 2
   /\ ~call.options.returnObjects
   /\ PrimaryEmpty)
  => LET k1 == CallChain[1].s
         k2 == CallChain[2].s
     IN result = IF Resolves(k1, NoOptions) THEN PlainT(k1)
                 ELSE IF Resolves(k2, NoOptions) THEN PlainT(k2)
                 ELSE StrV(call.key)

\* C2: t returns a non-empty string, a non-empty object (only when
\* returnObjects is set) or the literal key of the caller; never undefined,
\* the empty string or an object without keys.
C2_ResultShape ==
  Done =>
    \/ IsStr(result) /\ result.s # <<>>
    \/ IsObj(result) /\ call.options.returnObjects /\ DOMAIN result.o # {}

\* The value stored at a path of a dictionary (no default), and the
\* dictionary without that path.
RECURSIVE RawAt(_, _, _)
RawAt(val, segs, i) ==
  IF i > Len(segs) THEN val
  ELSE IF IsObj(val) /\ segs[i] \in DOMAIN val.o
       THEN RawAt(val.o[segs[i]], segs, i + 1)
       ELSE Undefined
RECURSIVE DeletePath(_, _, _)
DeletePath(obj, segs, i) ==
  IF i >= Len(segs) THEN [p \in DOMAIN obj \ {segs[i]} |-> obj[p]]
  ELSE [obj EXCEPT ![segs[i]] = ObjV(DeletePath(obj[segs[i]].o, segs, i + 1))]
CallNamespace == SplitKey(call.key).namespace
CallLeaf == SplitKey(call.key).i18nKey
CallPath == SplitOn(CallLeaf.s, ".")
CallStored ==
  IF CallNamespace \in DOMAIN call.registry /\ ~IsUndef(CallLeaf)
  THEN RawAt(ObjV(call.registry[CallNamespace]), CallPath, 1)
  ELSE Undefined
RegistryWithoutCallKey ==
  [call.registry EXCEPT ![CallNamespace] = DeletePath(@, CallPath, 1)]

\* C6: for a key whose dictionary value is an object, t without
\* returnObjects does what it does when the key is absent from the
\* dictionary: the value classifies empty, the fallback chain is tried when
\* there is one, the literal key is returned otherwise, and the object is
\* never returned.
C6_ObjectAsMissing ==
  (Done /\ IsObj(CallStored) /\ ~call.options.returnObjects)
  => /\ result = t(RegistryWithoutCallKey, lang, config, call.key,
                   call.query, call.options).ret
     /\ PrimaryEmpty
     /\ ~IsObj(result)
     /\ Len(CallChain) > 0 => depth >= 2
     /\ Len(CallChain) = 0 => result = StrV(call.key)
C6_Witness ==
  /\ Done
  /\ IsObj(CallStored)
  /\ DOMAIN CallStored.o # {}
  /\ ~call.options.returnObjects
  /\ Len(CallChain) = 2
  /\ depth = 2
  /\ result = StrV(<<"B">>)

\* C8: a call with a fallback chain of length n terminates after at most
\* n + 1 invocations of t; an invocation calls t again only when its value
\* is empty, and with a chain one element shorter than its own.  While a
\* call is in progress the chain left plus the invocations run equal n, so
\* the invocation about to run is at most the (n + 1)-th: the call ends.
Resolved == SelectSeq(log, LAMBDA e : e.ev = "resolve")
C8_BoundedRecursion ==
  /\ depth = Len(Resolved)
  /\ depth <= Len(CallChain) + 1
  /\ pc = "t" => depth + Len(Fallbacks(options)) = Len(CallChain)
  /\ \A i \in 1..Len(Resolved) :
       /\ Resolved[i].chain = Len(CallChain) - (i - 1)
       /\ i < Len(Resolved) => Resolved[i].empty
C8_Witness == Done /\ Len(CallChain) = MaxChain /\ depth = MaxChain + 1

\* C10: with window defined, a call invokes the configured reporter
\* (config.logger, else missingKeyLogger) once for each key of the sequence
\* primary key, k1, k2, ... that classifies empty, in chain order and before
\* the next key is resolved, with that key's own namespace and leaf key;
\* never for a key with a non-empty value; and no key after the first
\* non-empty one is resolved or reported.
Reported == SelectSeq(log, LAMBDA e : e.ev = "report")
ChainKey(i) == IF i = 1 THEN call.key ELSE CallChain[i - 1].s
\* The index in log of the i-th resolve event.
RECURSIVE ResolveIndex(_, _)
ResolveIndex(i, from) ==
  IF log[from].ev = "resolve"
  THEN (IF i = 1 THEN from ELSE ResolveIndex(i - 1, from + 1))
  ELSE ResolveIndex(i, from + 1)
C10_ReportsInOrder ==
  env.window =>
    /\ \A i \in 1..Len(Resolved) :
         LET at == ResolveIndex(i, 1)
             e == log[at]
             reportedNext == at < Len(log) /\ log[at + 1].ev = "report"
         IN /\ e.key = ChainKey(i)
            /\ i < Len(Resolved) => e.empty
            /\ e.empty <=> reportedNext
            /\ reportedNext =>
                 /\ log[at + 1].key = e.key
                 /\ log[at + 1].namespace = SplitKey(e.key).namespace
                 /\ log[at + 1].i18nKey = SplitKey(e.key).i18nKey
                 /\ log[at + 1].logger = config.logger
    /\ Len(log) > 0 => log[1].ev = "resolve"
    /\ \A j \in 1..(Len(log) - 1) :
         log[j].ev = "report" => log[j + 1].ev = "resolve"
    /\ Len(console) = IF config.logger = "default" /\ ~env.production
                      THEN Len(Reported) ELSE 0
    /\ (Done /\ \A i \in 1..Len(Resolved) : Resolved[i].empty)
         => Len(Resolved) = Len(CallChain) + 1
C10_Witness ==
  /\ Done
  /\ env.window
  /\ config.logger = "custom"
  /\ Len(CallChain) = 2
  /\ Len(Resolved) = 3
  /\ Len(Reported) = 2
  /\ ~Resolved[3].empty

\* The path of the key the call resolved, and the value stored there.
ResolvedNamespace == SplitKey(key).namespace
ResolvedPath == SplitOn(SplitKey(key).i18nKey.s, ".")
StoredAt(reg) == RawAt(ObjV(reg[ResolvedNamespace]), ResolvedPath, 1)
RECURSIVE LeavesInterpolated(_, _, _)
LeavesInterpolated(before, after, q) ==
  /\ DOMAIN after = DOMAIN before
  /\ \A p \in DOMAIN before :
       IF IsStr(before[p])
       THEN after[p] = StrV(interpolation(before[p], q, config))
       ELSE /\ IsObj(after[p])
            /\ LeavesInterpolated(before[p].o, after[p].o, q)
RECURSIVE Leaves(_)
Leaves(obj) ==
  UNION {IF IsStr(obj[p]) THEN {obj[p].s} ELSE Leaves(obj[p].o) : p \in DOMAIN obj}
\* The frame of a call: every dictionary is as it was at the call when the
\* resolved value is a string or empty, or the query is absent or has no
\* keys; when an object leaf is returned with a non-empty query, the string
\* leaves of that object (and nothing else) are overwritten in the
\* dictionary with their interpolated text.
C9_Frame ==
  /\ pc = "t" => allNamespaces = call.registry
  /\ (Done /\ ~Wrote) => allNamespaces = call.registry
  /\ (Done /\ Wrote) =>
       /\ StoredAt(allNamespaces) = result
       /\ LeavesInterpolated(StoredAt(call.registry).o, result.o, call.query)
       /\ [allNamespaces EXCEPT ![ResolvedNamespace] =
             DeletePath(@, ResolvedPath, 1)]
          = [call.registry EXCEPT ![ResolvedNamespace] =
               DeletePath(@, ResolvedPath, 1)]
LaterCall ==
  /\ Done
  /\ lastWrite.wrote
  /\ key = lastWrite.key
  /\ IsObj(result)
  /\ call.query # lastWrite.query
CountCall == Done /\ call.key = ApplesKey /\ HasCount(call.query)
TheCount == QueryGet(call.query, <<"count">>).n
Dic == call.registry[<<"common">>]
ExactKey == Apples(NumStr(TheCount))
CategoryKey == Apples(select(lang, TheCount))
Interpolated(v) ==
  IF IsStr(v) THEN StrV(interpolation(v, call.query, config))
  ELSE ObjV(objectInterpolation(v.o, call.query, config))
NonEmptyString(v) == IsStr(v) /\ v.s # <<>>

\* C3: when the dictionary contains apples_<c>, t("common:apples",
\* {count: c}) returns the interpolated value stored there, whatever else the
\* dictionary holds.
C3_ExactKeyReturned ==
  (CountCall /\ ExactKey \in DOMAIN Dic) => result = Interpolated(Dic[ExactKey])
\* C3, for a non-empty string: when the dictionary holds a non-empty string
\* at apples_<c>, the call returns the interpolation of that string, whatever
\* else the dictionary holds.
C3_ExactStringReturned ==
  (CountCall /\ ExactKey \in DOMAIN Dic /\ NonEmptyString(Dic[ExactKey]))
  => result = StrV(interpolation(Dic[ExactKey], call.query, config))
C3_Witness ==
  /\ CountCall
  /\ TheCount = 3
  /\ {ExactKey, CategoryKey, <<"apples">>} \subseteq DOMAIN Dic
  /\ result = StrV(<<"exactly", " ", "3", " ", "apples">>)

\* C4: for c > 1, when the dictionary has no apples_<c> but has
\* apples_<category(c)>, the call returns the interpolated value stored at
\* the category key, not the value at apples nor the literal key.
C4_CategoryKeyReturned ==
  (/\ CountCall
   /\ TheCount > 1
   /\ ExactKey \notin DOMAIN Dic
   /\ CategoryKey \in DOMAIN Dic)
  => result = Interpolated(Dic[CategoryKey])
\* C4, for a non-empty string: for c > 1, when the dictionary has no
\* apples_<c> and holds a non-empty string at apples_<category(c)>, the call
\* returns the interpolation of that string, not the value at apples nor the
\* literal key.
C4_CategoryStringReturned ==
  (/\ CountCall
   /\ TheCount > 1
   /\ ExactKey \notin DOMAIN Dic
   /\ CategoryKey \in DOMAIN Dic
   /\ NonEmptyString(Dic[CategoryKey]))
  => /\ result = StrV(interpolation(Dic[CategoryKey], call.query, config))
     /\ result # StrV(call.key)
     /\ <<"apples">> \in DOMAIN Dic => result # Dic[<<"apples">>]
C4_Witness ==
  /\ CountCall
  /\ lang = "ar"
  /\ TheCount = 4
  /\ ExactKey \notin DOMAIN Dic
  /\ {CategoryKey, <<"apples">>} \subseteq DOMAIN Dic
  /\ result = StrV(<<"4", " ", "apples">>)

\* C7: with common = {greeting: "Hello {{name}}", apples_1: "one apple",
\* apples_plural: "{{count}} apples"} and the English plural rules,
\* t("common:apples", {count: 1}) is "one apple" and
\* t("common:apples", {count: 5}) is "5 apples".
Scenario(pluralForm) ==
  Obj1(<<"common">>,
       (<<"greeting">> :> StrV(Hello)) @@ (Apples(<<"1">>) :> StrV(OneApple))
         @@ (Apples(pluralForm) :> StrV(CountText)))
ScenarioCall(pluralForm, c) ==
  /\ Done
  /\ lang = "en"
  /\ call.registry = Scenario(pluralForm)
  /\ call.key = ApplesKey
  /\ call.query = Count(c)
  /\ call.options = NoOptions
FiveApples == StrV(<<"5", " ", "apples">>)
C7_Scenario ==
  /\ ScenarioCall(<<"plural">>, 1) => result = StrV(OneApple)
  /\ ScenarioCall(<<"plural">>, 5) => result = FiveApples
\* C7, by category: in that scenario t("common:apples", {count: 1}) is
\* "one apple" and t("common:apples", {count: 5}) is the literal key
\* "common:apples", the dictionary having neither apples_5 nor apples_other;
\* it is "5 apples" when the text is stored as apples_other.
C7_ScenarioByCategory ==
  /\ ScenarioCall(<<"plural">>, 1) => result = StrV(OneApple)
  /\ ScenarioCall(<<"plural">>, 5) => result = StrV(ApplesKey)
  /\ ScenarioCall(<<"other">>, 5) => result = FiveApples
C7_Witness == ScenarioCall(<<"plural">>, 5) /\ result = StrV(ApplesKey)

\* Whether s has the sequence p in it.
Contains(s, p) == \E i \in 1..(Len(s) + 1) : StartsWith(s, i, p)
Delimiters == config.interpolation
DelimiterChars ==
  {Delimiters.prefix[i] : i \in 1..Len(Delimiters.prefix)}
  \cup {Delimiters.suffix[i] : i \in 1..Len(Delimiters.suffix)}
\* A text whose delimiter characters all belong to placeholders: prefix,
\* then characters that are not delimiters, then suffix.
RECURSIVE WellFormed(_, _)
WellFormed(s, i) ==
  IF i > Len(s) THEN TRUE
  ELSE IF s[i] \notin DelimiterChars THEN WellFormed(s, i + 1)
  ELSE /\ StartsWith(s, i, Delimiters.prefix)
       /\ LET from == i + Len(Delimiters.prefix)
              stops == {j \in from..Len(s) : s[j] \in DelimiterChars}
              j == CHOOSE j \in stops : \A l \in stops : j <= l
          IN /\ stops # {}
             /\ StartsWith(s, j, Delimiters.suffix)
             /\ WellFormed(s, j + Len(Delimiters.suffix))
\* A query value whose string form has no delimiter character and no
\* replacement pattern of String.replace.
PlainValue(v) ==
  LET str == QValStr(v)
  IN /\ \A i \in 1..Len(str) : str[i] \notin DelimiterChars
     /\ \A i \in 1..(Len(str) - 1) :
          str[i] = "$" => str[i + 1] \notin {"$", "&", "BQ", "SQ"}
\* The text with every placeholder of a key of q replaced, in one pass, by
\* the string form of that key's value.
RECURSIVE Substituted(_, _, _)
Substituted(s, i, q) ==
  IF i > Len(s) THEN <<>>
  ELSE LET hits == {k \in QueryKeys(q) : MatchAt(s, i, Delimiters, k) > 0}
       IN IF hits = {} THEN <<s[i]>> \o Substituted(s, i + 1, q)
          ELSE LET k == CHOOSE k \in hits : TRUE
               IN QValStr(QueryGet(q, k))
                    \o Substituted(s, MatchAt(s, i, Delimiters, k), q)
Interpolating == Done /\ IsStr(text) /\ call.query.present
Placeholders == {k \in QueryKeys(call.query) : HasPattern(text.s, Delimiters, k)}

====
